---- MODULE Spec2Model ----
(***************************************************************************)
(* State-machine model of the HTTP boundary of the pension product         *)
(* recommendation service (src/api/api_main.py): the module-level globals  *)
(* analyzer / recommender, initialize_system, and the request handlers     *)
(* recommend_products, get_product_detail, search_products and home.       *)
(*                                                                         *)
(* The classes PensionProductAnalyzer and PensionProductRecommender are    *)
(* imported by api_main.py (lines 17-18) but their code is not part of the *)
(* sources; the operators standing for them are written from spec.md and   *)
(* are marked as such where they are defined.                              *)
(*                                                                         *)
(* Strings of the program that are not ASCII are transliterated:           *)
(*   低 "low", 中低 "mid_low", 中 "mid", 中高 "mid_high", 高 "high",       *)
(*   城镇职工 "urban_employee", 全国 "nationwide", 北京 "beijing",         *)
(*   养老年金 "annuity".                                                   *)
(***************************************************************************)
EXTENDS Integers, Sequences, FiniteSets, TLC

VARIABLES
    now,            \* the wall clock read by datetime.now()
    analyzer,       \* global analyzer: 0 is None, otherwise an object id
    recommender,    \* global recommender: 0 is None, otherwise an object id
    analyzers,      \* heap of PensionProductAnalyzer objects: id -> [df, processed_df]
    recommenders,   \* heap of PensionProductRecommender objects: id -> [analyzer, user_profiles]
    pc,             \* per worker thread: position inside recommend_products
    data,           \* per worker thread: the parsed request body
    user_profile,   \* per worker thread: local user_profile
    user_id,        \* per worker thread: local user_id
    response,       \* per worker thread: the response being built / returned
    calls,          \* per worker thread: core methods invoked for the current request
    received,       \* number of POST /recommend requests taken so far
    added,          \* number of add_user_profile calls made so far
    detail,         \* the last GET /product/<id> exchange
    search,         \* the last GET /search exchange
    lookups,        \* number of catalog requests (detail, search) taken so far
    init_pc,        \* position inside a running initialize_system, "idle" when none runs
    reloads,        \* number of initialize_system runs started after start-up
    home_pc,        \* position of the reader thread inside home()
    home            \* what the reader thread has read so far: the data_info of home()

vars == <<now, analyzer, recommender, analyzers, recommenders, pc, data,
          user_profile, user_id, response, calls, received, added,
          detail, search, lookups, init_pc, reloads, home_pc, home>>

(***************************************************************************)
(* Bounds of the model.                                                    *)
(***************************************************************************)
NumThreads == 2      \* worker threads serving POST /recommend concurrently
MaxRequests == 2     \* POST /recommend requests taken in the concurrent specification
MaxCalls == 1        \* POST /recommend requests taken in the sequential specification
MaxClock == 1        \* the clock runs over 0..MaxClock
MaxLookups == 2      \* catalog requests taken in the catalog specification
MaxReloads == 1      \* initialize_system runs after start-up

Threads == 1..NumThreads

Min(a, b) == IF a < b THEN a ELSE b
Max(a, b) == IF a < b THEN b ELSE a

(***************************************************************************)
(* JSON values as request.get_json() returns them.  Every value has the    *)
(* same three fields so that values of different JSON types can be         *)
(* compared.  A Python bool is an instance of int (True == 1).             *)
(* An "obj" stands for the filter_criteria object {"insurance_type": s}.   *)
(***************************************************************************)
JNum(n) == [t |-> "num", n |-> n, s |-> ""]
JStr(s) == [t |-> "str", n |-> 0, s |-> s]
JBool(b) == [t |-> "bool", n |-> IF b THEN 1 ELSE 0, s |-> ""]
JNull == [t |-> "null", n |-> 0, s |-> ""]
JObj(s) == [t |-> "obj", n |-> 0, s |-> s]

\* A dict: a function from the keys present to their values.
EmptyDict == [k \in {} |-> JNull]
With(d, k, v) == [x \in DOMAIN d \cup {k} |-> IF x = k THEN v ELSE d[x]]
\* dict.get(k, default): the default is used only when the key is absent.
Get(d, k, default) == IF k \in DOMAIN d THEN d[k] ELSE default

(***************************************************************************)
(* Text.  A Python str is a sequence of one-character strings here, so     *)
(* that f-strings are concatenations.                                      *)
(***************************************************************************)
Digit(d) == CASE d = 0 -> "0" [] d = 1 -> "1" [] d = 2 -> "2" [] d = 3 -> "3"
              [] d = 4 -> "4" [] d = 5 -> "5" [] d = 6 -> "6" [] d = 7 -> "7"
              [] d = 8 -> "8" [] d = 9 -> "9"

\* str(n) of a non-negative int.
RECURSIVE DecStr(_)
DecStr(n) == IF n < 10 THEN <<Digit(n)>> ELSE DecStr(n \div 10) \o <<Digit(n % 10)>>

\* f"{v}" of a validated age / annual_income / risk_tolerance value.
FormatValue(v) ==
    CASE v.t = "bool" -> IF v.n = 1 THEN <<"True">> ELSE <<"False">>
      [] v.t = "num" -> DecStr(v.n)
      [] OTHER -> <<v.s>>

\* datetime.isoformat(): a fixed-width rendering of the clock reading.
IsoFormat(clock) == <<"T", Digit((clock \div 10) % 10), Digit(clock % 10)>>

\* hashlib.md5(text).hexdigest()[:12].  The digest is taken to be free of
\* collisions (distinct texts give distinct keys), which is the assumption
\* most favourable to the program; the text itself, tagged, stands for it.
Md5Hex12(text) == <<"md5">> \o text

\* f"{match_score}%"
MatchPercentageMissingSign(score) == DecStr(score)
MatchPercentage(score) == DecStr(score) \o <<"%">>

(***************************************************************************)
(* The catalog and the core classes.  PensionProductAnalyzer and           *)
(* PensionProductRecommender are imported by api_main.py; the operators of *)
(* this section are written from spec.md sections 3 and 4.                 *)
(***************************************************************************)
Product(id, name, company, lo, hi, type, payment, premium, risk, scope, keywords) ==
    [product_id |-> id, product_name |-> name, insurance_company |-> company,
     min_age |-> lo, max_age |-> hi, insurance_type |-> type,
     payment_type |-> payment, min_premium |-> premium, risk_level |-> risk,
     sales_scope |-> scope, feature_keywords |-> keywords]

\* create_demo_data(): the fixed demonstration catalog.
DemoCatalog ==
    << Product("P001", "an kang annuity", "alpha life", 18, 60, "annuity", "periodic", 10, "mid", "nationwide", {"annuity", "lifetime"}),
       Product("P002", "fu shou whole life", "beta life", 30, 70, "whole_life", "lump_sum", 20, "low", "beijing", {"lifetime", "dividend"}),
       Product("P003", "jin se annuity", "alpha life", 0, 120, "annuity", "periodic", 5, "high", "nationwide", {"annuity", "flexible"}),
       Product("P004", "wan nian hybrid", "gamma pension", 50, 80, "hybrid", "lump_sum", 10, "mid", "nationwide", {"hybrid", "lifetime"}) >>

\* A catalog loaded from the Excel source.
ExcelCatalog ==
    << Product("E001", "chang qing annuity", "delta life", 20, 65, "annuity", "periodic", 8, "mid_low", "nationwide", {"annuity"}),
       Product("E002", "song he whole life", "delta life", 40, 75, "whole_life", "lump_sum", 30, "mid", "nationwide", {"lifetime"}) >>

\* A DataFrame attribute that may be None.
NoneDf == [is_none |-> TRUE, rows |-> <<>>]
Df(rows) == [is_none |-> FALSE, rows |-> rows]

valid_risk_levels == <<"low", "mid_low", "mid", "mid_high", "high">>

RiskIndex(r) == CHOOSE i \in 1..Len(valid_risk_levels) : valid_risk_levels[i] = r
Abs(x) == IF x < 0 THEN -x ELSE x

\* Scoring Engine, spec.md 4.2: the five factor contributions.
AgeEligible(profile, p) == p.min_age <= profile["age"].n /\ profile["age"].n <= p.max_age

RiskCredit(profile, p) ==
    LET dist == Abs(RiskIndex(profile["risk_tolerance"].s) - RiskIndex(p.risk_level))
    IN  IF dist = 0 THEN 25 ELSE IF dist = 1 THEN 15 ELSE 5

AffordCredit(profile, p) ==
    LET inv == profile["investment_amount"]
    IN  IF inv.t \notin {"num", "bool"} THEN 0
        ELSE IF inv.n >= p.min_premium THEN 25
        ELSE Max(0, (25 * inv.n) \div p.min_premium)

GeoCredit(profile, p) ==
    LET loc == profile["location"]
    IN  IF p.sales_scope = "nationwide" \/ (loc.t = "str" /\ loc.s = p.sales_scope)
        THEN 15 ELSE 0

HorizonCredit(profile, p) ==
    LET ret == profile["expected_retirement_age"]
    IN  IF ret.t \in {"num", "bool"} /\ ret.n > profile["age"].n THEN 10 ELSE 0

MatchScore(profile, p) ==
    Min(100, Max(0, 25 + RiskCredit(profile, p) + AffordCredit(profile, p)
                       + GeoCredit(profile, p) + HorizonCredit(profile, p)))

Reasons(profile, p) ==
    <<"age within the eligible range">>
    \o (IF RiskCredit(profile, p) >= 15 THEN <<"risk level matches your preference">> ELSE <<>>)
    \o (IF AffordCredit(profile, p) >= 15 THEN <<"premium within your budget">> ELSE <<>>)
    \o (IF GeoCredit(profile, p) > 0 THEN <<"sold in your region">> ELSE <<>>)
    \o (IF HorizonCredit(profile, p) > 0 THEN <<"fits your retirement horizon">> ELSE <<>>)

\* One scored product as the recommender hands it to the boundary.
Scored(profile, catalog, i) ==
    [index |-> i, product |-> catalog[i], match_score |-> MatchScore(profile, catalog[i]),
     recommendation_reasons |-> Reasons(profile, catalog[i])]

\* Ranking order, spec.md 4.3 step 3.
RankedBefore(a, b) ==
    \/ a.match_score > b.match_score
    \/ a.match_score = b.match_score /\ a.product.min_premium < b.product.min_premium
    \/ a.match_score = b.match_score /\ a.product.min_premium = b.product.min_premium
       /\ a.index < b.index

\* filter_criteria: None, or the exact-match predicate on insurance_type.
PassesFilter(filter_criteria, p) ==
    filter_criteria.t # "obj" \/ p.insurance_type = filter_criteria.s

\* recommend(profile, top_n, filter_criteria), spec.md 4.3, for a valid top_n.
Recommend(profile, catalog, top_n, filter_criteria) ==
    LET evaluated == SelectSeq([i \in 1..Len(catalog) |-> i],
                               LAMBDA i : PassesFilter(filter_criteria, catalog[i]))
        eligible == SelectSeq(evaluated, LAMBDA i : AgeEligible(profile, catalog[i]))
        scored == [j \in 1..Len(eligible) |-> Scored(profile, catalog, eligible[j])]
        ranked == SortSeq(scored, RankedBefore)
    IN  [recommendations |-> SubSeq(ranked, 1, Min(top_n, Len(ranked))),
         total_products_evaluated |-> Len(evaluated)]

\* The catalog a recommender object works on.
CatalogOf(rec) == analyzers[recommenders[rec].analyzer].processed_df.rows

\* recommender.get_recommendations(user_id, top_n, filter_criteria): raises the
\* typed failure for an unknown user_id and for a top_n that is not an integer
\* >= 0 (spec.md 4.3 step 4 and section 7).
get_recommendations(rec, uid, top_n, filter_criteria) ==
    IF uid \notin DOMAIN recommenders[rec].user_profiles
    THEN [raised |-> TRUE, value |-> [recommendations |-> <<>>, total_products_evaluated |-> 0]]
    ELSE IF top_n.t # "num" \/ top_n.n < 0
    THEN [raised |-> TRUE, value |-> [recommendations |-> <<>>, total_products_evaluated |-> 0]]
    ELSE [raised |-> FALSE,
          value |-> Recommend(recommenders[rec].user_profiles[uid], CatalogOf(rec),
                              top_n.n, filter_criteria)]

\* Distinct insurance types of a ranked list, in order of first appearance.
RECURSIVE DistinctTypes(_, _)
DistinctTypes(recs, seen) ==
    IF recs = <<>> THEN <<>>
    ELSE LET ty == Head(recs).product.insurance_type
         IN  IF ty \in seen THEN DistinctTypes(Tail(recs), seen)
             ELSE <<ty>> \o DistinctTypes(Tail(recs), seen \cup {ty})

\* advise(profile, recommendation_set), spec.md 4.4.
Advise(profile, recs) ==
    [general_advice |->
        IF recs = <<>> THEN <<"no eligible products found">>
        ELSE IF AffordCredit(profile, Head(recs).product) < 15
        THEN <<"budget is below the premium of the best match">>
        ELSE <<"profile matches the catalog well">>,
     product_type_recommendations |-> DistinctTypes(recs, {}),
     next_steps |->
        IF recs = <<>> THEN <<"adjust age or budget inputs">>
        ELSE <<"consult a licensed advisor">>]

\* recommender.get_personalized_advice(user_id): advice for the stored profile
\* from its top recommendations (default top_n, no filter).
get_personalized_advice(rec, uid) ==
    IF uid \notin DOMAIN recommenders[rec].user_profiles
    THEN [raised |-> TRUE, value |-> Advise(EmptyDict, <<>>)]
    ELSE LET profile == recommenders[rec].user_profiles[uid]
         IN  [raised |-> FALSE,
              value |-> Advise(profile, Recommend(profile, CatalogOf(rec), 5, JNull).recommendations)]

(***************************************************************************)
(* Responses.  Every response carries the same fields; the ones a given    *)
(* response does not have are left empty.                                  *)
(***************************************************************************)
NoAdvice == [general_advice |-> <<>>, product_type_recommendations |-> <<>>, next_steps |-> <<>>]

ErrorResponse(status, error) ==
    [status |-> status, success |-> FALSE, error |-> error, timestamp |-> <<>>,
     user_profile |-> EmptyDict, total_products_evaluated |-> 0,
     recommendation_count |-> 0, recommendations |-> <<>>,
     personalized_advice |-> NoAdvice]

NoResponse == ErrorResponse(0, "")

(***************************************************************************)
(* POST /recommend: recommend_products.                                    *)
(*                                                                         *)
(* A request body is what request.get_json() makes of it:                  *)
(*   kind "raises"  get_json() raises (malformed or missing JSON text);    *)
(*   kind "none"    get_json() returns None (the JSON text null);          *)
(*   kind "scalar"  a JSON number or true: truthy, not a container;        *)
(*   kind "dict"    a JSON object, its members in fields.                  *)
(***************************************************************************)
Body(kind, fields) == [kind |-> kind, fields |-> fields]
NoBody == Body("none", EmptyDict)

required_fields == <<"age", "annual_income", "risk_tolerance">>

missing_fields(d) == SelectSeq(required_fields, LAMBDA f : f \notin DOMAIN d)

\* isinstance(v, (int, float)): bool is a subclass of int.
IsIntOrFloat(v) == v.t \in {"num", "bool"}

\* Lines 150-190: the response of the first failing check, NoResponse when all pass.
\* "not data" is true of None and of the empty dict.
ValidationError(body) ==
    LET d == body.fields
    IN  IF body.kind = "none" \/ (body.kind = "dict" /\ DOMAIN d = {})
        THEN ErrorResponse(400, "request body must be JSON")
        ELSE IF missing_fields(d) # <<>>
        THEN ErrorResponse(400, "missing required fields")
        ELSE IF ~IsIntOrFloat(d["age"]) \/ d["age"].n < 0 \/ d["age"].n > 120
        THEN ErrorResponse(400, "age must be between 0 and 120")
        ELSE IF ~IsIntOrFloat(d["annual_income"]) \/ d["annual_income"].n < 0
        THEN ErrorResponse(400, "annual income must be non-negative")
        ELSE IF ~(d["risk_tolerance"].t = "str"
                  /\ \E i \in 1..Len(valid_risk_levels) : valid_risk_levels[i] = d["risk_tolerance"].s)
        THEN ErrorResponse(400, "risk tolerance must be one of the five levels")
        ELSE NoResponse

\* Lines 148 and 159: get_json() raising, and "field not in data" on a value
\* that is no container (TypeError), both end in the handler of lines 271-277.
RaisesBeforeProfile(body) == body.kind \in {"raises", "scalar"}

\* income * 0.5.  Amounts of the model are even integers, so the half is exact.
HalfOf(n) == n \div 2

\* Lines 193-209: the user_profile dict.  int(age) and float(income) of a bool
\* are 1 and 1.0 for True.
OptionalKeys == {"family_status", "health_status", "liquidity_needs"}

BuildProfile(d) ==
    LET base == [k \in {"age", "annual_income", "risk_tolerance", "social_security_type",
                        "expected_retirement_age", "investment_amount", "location"} |->
                   CASE k = "age" -> JNum(d["age"].n)
                     [] k = "annual_income" -> JNum(d["annual_income"].n)
                     [] k = "risk_tolerance" -> d["risk_tolerance"]
                     [] k = "social_security_type" -> Get(d, "social_security", JStr("urban_employee"))
                     [] k = "expected_retirement_age" -> Get(d, "retirement_age", JNum(60))
                     [] k = "investment_amount" -> Get(d, "investment_amount", JNum(HalfOf(d["annual_income"].n)))
                     [] k = "location" -> Get(d, "location", JStr("nationwide"))]
    IN  [k \in DOMAIN base \cup (OptionalKeys \cap DOMAIN d) |->
            IF k \in DOMAIN base THEN base[k] ELSE d[k]]

\* Line 213: the user id, from the clock and the raw age, income and risk values.
MakeUserId(clock, d) ==
    Md5Hex12(IsoFormat(clock) \o FormatValue(d["age"]) \o FormatValue(d["annual_income"])
             \o FormatValue(d["risk_tolerance"]))

\* Lines 219-220.
FilterCriteriaOf(d) == Get(d, "filter_criteria", JNull)
TopNZeroAsDefault(d) ==
    IF "top_n" \in DOMAIN d /\ ~(d["top_n"].t \in {"num", "bool"} /\ d["top_n"].n = 0)
       /\ d["top_n"].t # "null"
    THEN d["top_n"] ELSE JNum(5)
TopNOf(d) == Get(d, "top_n", JNum(5))

\* Lines 242-258: one formatted recommendation.
FormatRec(rec) ==
    [product_id |-> rec.product.product_id,
     product_name |-> rec.product.product_name,
     insurance_company |-> rec.product.insurance_company,
     match_score |-> rec.match_score,
     match_percentage |-> MatchPercentage(rec.match_score),
     age_range |-> <<rec.product.min_age, rec.product.max_age>>,
     insurance_type |-> rec.product.insurance_type,
     payment_type |-> rec.product.payment_type,
     min_premium |-> rec.product.min_premium,
     risk_level |-> rec.product.risk_level,
     recommendation_reasons |-> rec.recommendation_reasons,
     sales_scope |-> rec.product.sales_scope]

\* Lines 230-259: formatted_response before the advice is added.
FormatResponse(clock, profile, result) ==
    [status |-> 200, success |-> TRUE, error |-> "", timestamp |-> IsoFormat(clock),
     user_profile |-> profile,
     total_products_evaluated |-> result.total_products_evaluated,
     recommendation_count |-> Len(result.recommendations),
     recommendations |-> [i \in 1..Len(result.recommendations) |-> FormatRec(result.recommendations[i])],
     personalized_advice |-> NoAdvice]

\* Lines 271-277.
InternalError == ErrorResponse(500, "internal server error")

UserProfiles == recommenders[recommender].user_profiles

\* Lines 146-213: parse, validate, build the profile and the user id.
recommend_validate(t, body) ==
    /\ pc[t] = "idle"
    /\ data' = [data EXCEPT ![t] = body]
    /\ received' = received + 1
    /\ calls' = [calls EXCEPT ![t] = {}]
    /\ IF RaisesBeforeProfile(body)
       THEN /\ response' = [response EXCEPT ![t] = InternalError]
            /\ pc' = [pc EXCEPT ![t] = "done"]
            /\ UNCHANGED <<user_profile, user_id>>
       ELSE IF ValidationError(body) # NoResponse
       THEN /\ response' = [response EXCEPT ![t] = ValidationError(body)]
            /\ pc' = [pc EXCEPT ![t] = "done"]
            /\ UNCHANGED <<user_profile, user_id>>
       ELSE /\ user_profile' = [user_profile EXCEPT ![t] = BuildProfile(body.fields)]
            /\ user_id' = [user_id EXCEPT ![t] = MakeUserId(now, body.fields)]
            /\ pc' = [pc EXCEPT ![t] = "add_user_profile"]
            /\ UNCHANGED response
    /\ UNCHANGED <<now, analyzer, recommender, analyzers, recommenders, added,
                   detail, search, lookups, init_pc, reloads, home_pc, home>>

\* Line 216: recommender.add_user_profile(user_id, user_profile) stores the
\* profile under the key in the registry of the current global recommender.
recommend_add_user_profile(t) ==
    /\ pc[t] = "add_user_profile"
    /\ recommenders' = [recommenders EXCEPT ![recommender].user_profiles =
                            With(@, user_id[t], user_profile[t])]
    /\ calls' = [calls EXCEPT ![t] = @ \cup {"add_user_profile"}]
    /\ added' = added + 1
    /\ pc' = [pc EXCEPT ![t] = "get_recommendations"]
    /\ UNCHANGED <<now, analyzer, recommender, analyzers, data, user_profile, user_id,
                   response, received, detail, search, lookups, init_pc, reloads,
                   home_pc, home>>

\* Lines 219-259: get_recommendations and the formatting of its result.
recommend_get_recommendations(t) ==
    /\ pc[t] = "get_recommendations"
    /\ LET r == get_recommendations(recommender, user_id[t], TopNOf(data[t].fields),
                                    FilterCriteriaOf(data[t].fields))
       IN  IF r.raised
           THEN /\ response' = [response EXCEPT ![t] = InternalError]
                /\ pc' = [pc EXCEPT ![t] = "done"]
           ELSE /\ response' = [response EXCEPT ![t] = FormatResponse(now, user_profile[t], r.value)]
                /\ pc' = [pc EXCEPT ![t] = "get_personalized_advice"]
    /\ calls' = [calls EXCEPT ![t] = @ \cup {"get_recommendations"}]
    /\ UNCHANGED <<now, analyzer, recommender, analyzers, recommenders, data, user_profile,
                   user_id, received, added, detail, search, lookups, init_pc, reloads,
                   home_pc, home>>

\* Lines 262-269: get_personalized_advice and the return of the response.
recommend_get_personalized_advice(t) ==
    /\ pc[t] = "get_personalized_advice"
    /\ LET a == get_personalized_advice(recommender, user_id[t])
       IN  IF a.raised
           THEN response' = [response EXCEPT ![t] = InternalError]
           ELSE response' = [response EXCEPT ![t].personalized_advice = a.value]
    /\ pc' = [pc EXCEPT ![t] = "done"]
    /\ calls' = [calls EXCEPT ![t] = @ \cup {"get_personalized_advice"}]
    /\ UNCHANGED <<now, analyzer, recommender, analyzers, recommenders, data, user_profile,
                   user_id, received, added, detail, search, lookups, init_pc, reloads,
                   home_pc, home>>

\* The response has been sent; the worker thread is free for the next request.
recommend_return(t) ==
    /\ pc[t] = "done"
    /\ pc' = [pc EXCEPT ![t] = "idle"]
    /\ data' = [data EXCEPT ![t] = NoBody]
    /\ user_profile' = [user_profile EXCEPT ![t] = EmptyDict]
    /\ user_id' = [user_id EXCEPT ![t] = <<>>]
    /\ response' = [response EXCEPT ![t] = NoResponse]
    /\ calls' = [calls EXCEPT ![t] = {}]
    /\ UNCHANGED <<now, analyzer, recommender, analyzers, recommenders, received, added,
                   detail, search, lookups, init_pc, reloads, home_pc, home>>

\* The clock advances between two readings of datetime.now(), or does not.
Tick ==
    /\ now < MaxClock
    /\ now' = now + 1
    /\ UNCHANGED <<analyzer, recommender, analyzers, recommenders, pc, data, user_profile,
                   user_id, response, calls, received, added, detail, search, lookups,
                   init_pc, reloads, home_pc, home>>

(***************************************************************************)
(* GET /product/<product_id>: get_product_detail.                          *)
(***************************************************************************)
NoProduct == Product("", "", "", 0, 0, "", "", 0, "", "", {})

NoDetail == [product_id |-> "", status |-> 0, success |-> FALSE, product |-> NoProduct]

\* The rows of the current global analyzer.
CurrentCatalog == analyzers[analyzer].df.rows

CatalogIds(catalog) == {catalog[i].product_id : i \in 1..Len(catalog)}

\* analyzer.get_product_details(product_id).  For an id of the catalog it returns
\* the record.  For an unknown id it signals the absence in one of the two ways
\* spec.md names: it returns no record (4.1), or it raises the typed not-found
\* failure (section 7); how tells which.
get_product_details(catalog, product_id, how) ==
    IF product_id \in CatalogIds(catalog)
    THEN [raised |-> FALSE, found |-> TRUE,
          value |-> catalog[CHOOSE i \in 1..Len(catalog) : catalog[i].product_id = product_id]]
    ELSE [raised |-> (how = "raise"), found |-> FALSE, value |-> NoProduct]

\* Lines 283-302.  The global analyzer is never None after start-up.
get_product_detail(product_id, how) ==
    /\ lookups < MaxLookups
    /\ lookups' = lookups + 1
    /\ LET r == get_product_details(CurrentCatalog, product_id, how)
       IN  detail' =
             IF r.raised
             THEN [product_id |-> product_id, status |-> 500, success |-> FALSE, product |-> NoProduct]
             ELSE IF r.found
             THEN [product_id |-> product_id, status |-> 200, success |-> TRUE, product |-> r.value]
             ELSE [product_id |-> product_id, status |-> 404, success |-> FALSE, product |-> NoProduct]
    /\ UNCHANGED <<now, analyzer, recommender, analyzers, recommenders, pc, data, user_profile,
                   user_id, response, calls, received, added, search, init_pc, reloads,
                   home_pc, home>>

(***************************************************************************)
(* GET /search: search_products.  Query arguments are text.                *)
(***************************************************************************)
DigitValue(c) == CASE c = "0" -> 0 [] c = "1" -> 1 [] c = "2" -> 2 [] c = "3" -> 3
                   [] c = "4" -> 4 [] c = "5" -> 5 [] c = "6" -> 6 [] c = "7" -> 7
                   [] c = "8" -> 8 [] c = "9" -> 9 [] OTHER -> -1

RECURSIVE ParseDigits(_)
ParseDigits(text) ==
    IF Len(text) = 1 THEN DigitValue(text[1])
    ELSE 10 * ParseDigits(SubSeq(text, 1, Len(text) - 1)) + DigitValue(text[Len(text)])

AllDigits(text) == text # <<>> /\ \A i \in 1..Len(text) : DigitValue(text[i]) >= 0

\* int(text): the value of an optionally signed decimal numeral, ValueError otherwise.
ParseInt(text) ==
    IF AllDigits(text) THEN [raised |-> FALSE, value |-> ParseDigits(text)]
    ELSE IF text # <<>> /\ text[1] = "-" /\ AllDigits(Tail(text))
    THEN [raised |-> FALSE, value |-> -ParseDigits(Tail(text))]
    ELSE [raised |-> TRUE, value |-> 0]

\* request.args.get('limit', 10) followed by int(): an absent argument is the int 10.
NoArg == <<"absent">>
LimitOf(arg) == IF arg = NoArg THEN [raised |-> FALSE, value |-> 10] ELSE ParseInt(arg)

\* DataFrame.head(n): the first n rows; for a negative n, all rows but the last -n.
DataFrameHead(rows, n) ==
    IF n >= 0 THEN SubSeq(rows, 1, Min(n, Len(rows)))
    ELSE SubSeq(rows, 1, Max(0, Len(rows) + n))

\* Lower-casing of the keywords the model uses.
Lower(keyword) == CASE keyword = "ANNUITY" -> "annuity" [] OTHER -> keyword

\* analyzer.search_products(keyword), spec.md 4.1: the products whose name,
\* company or feature keywords match the keyword, case-insensitively, in
\* catalog order.  Matching is by whole token here.
SearchMatches(catalog, keyword) ==
    SelectSeq(catalog, LAMBDA p : Lower(keyword) \in
                 ({p.product_name, p.insurance_company} \cup p.feature_keywords))

NoSearch == [keyword |-> "", limit |-> NoArg, status |-> 0, success |-> FALSE,
             count |-> 0, results |-> <<>>]

\* Lines 308-334.  An absent keyword argument is the empty string.
search_products(keyword, limit) ==
    /\ lookups < MaxLookups
    /\ lookups' = lookups + 1
    /\ LET n == LimitOf(limit)
           results == DataFrameHead(SearchMatches(CurrentCatalog, keyword), n.value)
       IN  search' =
             IF n.raised
             THEN [keyword |-> keyword, limit |-> limit, status |-> 500, success |-> FALSE,
                   count |-> 0, results |-> <<>>]
             ELSE IF keyword = ""
             THEN [keyword |-> keyword, limit |-> limit, status |-> 400, success |-> FALSE,
                   count |-> 0, results |-> <<>>]
             ELSE [keyword |-> keyword, limit |-> limit, status |-> 200, success |-> TRUE,
                   count |-> Len(results), results |-> results]
    /\ UNCHANGED <<now, analyzer, recommender, analyzers, recommenders, pc, data, user_profile,
                   user_id, response, calls, received, added, detail, init_pc, reloads,
                   home_pc, home>>

(***************************************************************************)
(* initialize_system, lines 28-49, statement by statement.  The globals    *)
(* are assigned as the statements run: analyzer at line 35, recommender at *)
(* line 46.                                                                *)
(***************************************************************************)
\* What PensionProductAnalyzer() leaves in df: the Excel rows, or None when
\* the load failed.
LoadOutcomes == {NoneDf, Df(ExcelCatalog)}

\* normalize(), spec.md 4.1: the rows of the model are already normalized.
Normalized(df) == df

\* Line 35: analyzer = PensionProductAnalyzer().
initialize_system_analyzer ==
    /\ init_pc = "idle"
    /\ reloads < MaxReloads
    /\ reloads' = reloads + 1
    /\ \E loaded \in LoadOutcomes :
          analyzers' = Append(analyzers, [df |-> loaded, processed_df |-> NoneDf])
    /\ analyzer' = Len(analyzers) + 1
    /\ init_pc' = "create_demo_data"
    /\ UNCHANGED <<now, recommender, recommenders, pc, data, user_profile, user_id, response,
                   calls, received, added, detail, search, lookups, home_pc, home>>

\* Lines 38-39: if analyzer.df is None: analyzer.create_demo_data().
initialize_system_create_demo_data ==
    /\ init_pc = "create_demo_data"
    /\ analyzers' = IF analyzers[analyzer].df.is_none
                    THEN [analyzers EXCEPT ![analyzer].df = Df(DemoCatalog)]
                    ELSE analyzers
    /\ init_pc' = "process_data"
    /\ UNCHANGED <<now, analyzer, recommender, recommenders, pc, data, user_profile, user_id,
                   response, calls, received, added, detail, search, lookups, reloads,
                   home_pc, home>>

\* Lines 42-43: if analyzer.processed_df is None: analyzer.process_data().
initialize_system_process_data ==
    /\ init_pc = "process_data"
    /\ analyzers' = IF analyzers[analyzer].processed_df.is_none
                    THEN [analyzers EXCEPT ![analyzer].processed_df = Normalized(analyzers[analyzer].df)]
                    ELSE analyzers
    /\ init_pc' = "recommender"
    /\ UNCHANGED <<now, analyzer, recommender, recommenders, pc, data, user_profile, user_id,
                   response, calls, received, added, detail, search, lookups, reloads,
                   home_pc, home>>

\* Line 46: recommender = PensionProductRecommender(analyzer), with an empty
\* Profile Registry.
initialize_system_recommender ==
    /\ init_pc = "recommender"
    /\ recommenders' = Append(recommenders, [analyzer |-> analyzer, user_profiles |-> EmptyDict])
    /\ recommender' = Len(recommenders) + 1
    /\ init_pc' = "idle"
    /\ UNCHANGED <<now, analyzer, analyzers, pc, data, user_profile, user_id, response,
                   calls, received, added, detail, search, lookups, reloads, home_pc, home>>

(***************************************************************************)
(* GET /: home, lines 70-73.  Each mention of analyzer reads the global.   *)
(***************************************************************************)
NoHome == [total_products |-> -1, processed_products |-> -1]

\* len(analyzer.df) if analyzer.df is not None else 0
LenOrZero(df) == IF df.is_none THEN 0 ELSE Len(df.rows)

\* Line 71.
home_total_products ==
    /\ home_pc = "idle"
    /\ home' = [total_products |-> LenOrZero(analyzers[analyzer].df), processed_products |-> -1]
    /\ home_pc' = "processed_products"
    /\ UNCHANGED <<now, analyzer, recommender, analyzers, recommenders, pc, data, user_profile,
                   user_id, response, calls, received, added, detail, search, lookups,
                   init_pc, reloads>>

\* Line 72.
home_processed_products ==
    /\ home_pc = "processed_products"
    /\ home' = [home EXCEPT !.processed_products = LenOrZero(analyzers[analyzer].processed_df)]
    /\ home_pc' = "done"
    /\ UNCHANGED <<now, analyzer, recommender, analyzers, recommenders, pc, data, user_profile,
                   user_id, response, calls, received, added, detail, search, lookups,
                   init_pc, reloads>>

\* The response has been sent.
home_return ==
    /\ home_pc = "done"
    /\ home_pc' = "idle"
    /\ home' = NoHome
    /\ UNCHANGED <<now, analyzer, recommender, analyzers, recommenders, pc, data, user_profile,
                   user_id, response, calls, received, added, detail, search, lookups,
                   init_pc, reloads>>

(***************************************************************************)
(* Request bodies.                                                         *)
(***************************************************************************)
BaseFields ==
    [k \in {"age", "annual_income", "risk_tolerance"} |->
        CASE k = "age" -> JNum(35) [] k = "annual_income" -> JNum(24)
          [] k = "risk_tolerance" -> JStr("mid")]

Absent == [t |-> "absent", n |-> 0, s |-> ""]

AgeValues == {Absent, JStr("35"), JBool(TRUE), JNull, JNum(-1), JNum(35), JNum(121)}
IncomeValues == {Absent, JStr("x"), JNum(-2), JNum(0), JNum(24)}
RiskValues == {Absent, JStr("mid"), JStr("extreme"), JNum(3)}

\* A dict of the required fields: Absent leaves the key out.
RequiredFields(age, income, risk) ==
    LET present == {k \in {"age", "annual_income", "risk_tolerance"} :
                       (CASE k = "age" -> age [] k = "annual_income" -> income
                          [] k = "risk_tolerance" -> risk) # Absent}
    IN  [k \in present |-> CASE k = "age" -> age [] k = "annual_income" -> income
                             [] k = "risk_tolerance" -> risk]

RequiredVariants ==
    {RequiredFields(a, i, r) : a \in AgeValues, i \in IncomeValues, r \in RiskValues}

OptionalVariants ==
    {With(BaseFields, "social_security", v) : v \in {JNull, JStr("rural_resident")}}
    \cup {With(BaseFields, "retirement_age", v) : v \in {JNull, JNum(65)}}
    \cup {With(BaseFields, "investment_amount", v) : v \in {JNull, JNum(0), JNum(8)}}
    \cup {With(BaseFields, "location", v) : v \in {JNull, JStr("beijing")}}
    \cup {With(BaseFields, "family_status", JStr("married")),
          With(With(BaseFields, "health_status", JStr("good")), "liquidity_needs", JStr("low"))}

TopNVariants ==
    {With(BaseFields, "top_n", v) : v \in {JNull, JNum(-1), JNum(0), JNum(1), JNum(2), JNum(7)}}
    \cup {With(BaseFields, "filter_criteria", JObj("annuity")),
          With(With(BaseFields, "filter_criteria", JObj("annuity")), "top_n", JNum(1))}

\* The bodies of the sequential specification.
Bodies ==
    {Body("raises", EmptyDict), Body("none", EmptyDict), Body("scalar", EmptyDict)}
    \cup {Body("dict", d) : d \in RequiredVariants \cup OptionalVariants \cup TopNVariants}

\* The bodies of the concurrent specification.  The third is another person
\* whose age and income concatenate to the same digits as the first one's.
ConcurrentBodies ==
    {Body("dict", d) : d \in
        {BaseFields,
         With(BaseFields, "location", JStr("beijing")),
         RequiredFields(JNum(3), JNum(524), JStr("mid")),
         With(BaseFields, "top_n", JNum(-1)),
         RequiredFields(JNum(35), JNum(24), Absent)}}

ProductIds == {"P001", "P003", "E001", "X999"}
Keywords == {"", "annuity", "ANNUITY", "lifetime", "alpha life", "tontine"}
Limits == {NoArg, <<"0">>, <<"1">>, <<"2">>, <<"1", "0">>, <<"-", "1">>, <<"-", "5">>, <<"a">>, <<>>}

(***************************************************************************)
(* The state after start-up: the module has been imported and              *)
(* initialize_system has run to completion (lines 53 and 366 / 372) before *)
(* the first request is served.                                            *)
(***************************************************************************)
Init ==
    /\ now = 0
    /\ analyzer = 1
    /\ recommender = 1
    /\ \E rows \in {DemoCatalog, ExcelCatalog} :
          analyzers = <<[df |-> Df(rows), processed_df |-> Normalized(Df(rows))]>>
    /\ recommenders = <<[analyzer |-> 1, user_profiles |-> EmptyDict]>>
    /\ pc = [t \in Threads |-> "idle"]
    /\ data = [t \in Threads |-> NoBody]
    /\ user_profile = [t \in Threads |-> EmptyDict]
    /\ user_id = [t \in Threads |-> <<>>]
    /\ response = [t \in Threads |-> NoResponse]
    /\ calls = [t \in Threads |-> {}]
    /\ received = 0
    /\ added = 0
    /\ detail = NoDetail
    /\ search = NoSearch
    /\ lookups = 0
    /\ init_pc = "idle"
    /\ reloads = 0
    /\ home_pc = "idle"
    /\ home = NoHome

\* A worker thread takes a request.
Receive(t) == received < MaxRequests /\ \E body \in ConcurrentBodies : recommend_validate(t, body)

\* Concurrent POST /recommend requests on the worker threads.
Next ==
    \/ Tick
    \/ \E t \in Threads :
          \/ Receive(t)
          \/ recommend_add_user_profile(t)
          \/ recommend_get_recommendations(t)
          \/ recommend_get_personalized_advice(t)
          \/ recommend_return(t)

Spec == Init /\ [][Next]_vars

\* POST /recommend requests served one after the other.
ReceiveApi == received < MaxCalls /\ \E body \in Bodies : recommend_validate(1, body)

NextApi ==
    \/ Tick
    \/ ReceiveApi
    \/ recommend_add_user_profile(1)
    \/ recommend_get_recommendations(1)
    \/ recommend_get_personalized_advice(1)
    \/ recommend_return(1)

SpecApi == Init /\ [][NextApi]_vars

\* Catalog requests.
NextCatalog ==
    \/ \E product_id \in ProductIds, how \in {"none", "raise"} : get_product_detail(product_id, how)
    \/ \E keyword \in Keywords, limit \in Limits : search_products(keyword, limit)

SpecCatalog == Init /\ [][NextCatalog]_vars

\* initialize_system running again while requests are served.
ReceiveReload == received < MaxRequests /\ recommend_validate(1, Body("dict", BaseFields))

NextReload ==
    \/ initialize_system_analyzer
    \/ initialize_system_create_demo_data
    \/ initialize_system_process_data
    \/ initialize_system_recommender
    \/ home_total_products
    \/ home_processed_products
    \/ home_return
    \/ ReceiveReload
    \/ recommend_add_user_profile(1)
    \/ recommend_get_recommendations(1)
    \/ recommend_get_personalized_advice(1)
    \/ recommend_return(1)

SpecReload == Init /\ [][NextReload]_vars

(***************************************************************************)
(* The claims.                                                             *)
(***************************************************************************)
\* A JSON number; true and false are not numbers.
IsJsonNumber(v) == v.t = "num"

IsRiskLevel(v) ==
    v.t = "str" /\ \E i \in 1..Len(valid_risk_levels) : valid_risk_levels[i] = v.s

\* The requests C1 is about: no body or an empty one, a required field missing,
\* an age that is no number or outside [0,120], an income that is no number or
\* negative, a risk tolerance outside the five levels.
InvalidRequest(body) ==
    \/ body.kind # "dict"
    \/ DOMAIN body.fields = {}
    \/ \E i \in 1..Len(required_fields) : required_fields[i] \notin DOMAIN body.fields
    \/ ~IsJsonNumber(body.fields["age"])
    \/ body.fields["age"].n < 0 \/ body.fields["age"].n > 120
    \/ ~IsJsonNumber(body.fields["annual_income"])
    \/ body.fields["annual_income"].n < 0
    \/ ~IsRiskLevel(body.fields["risk_tolerance"])

Answered(t) == pc[t] = "done"
Succeeded(t) == pc[t] = "done" /\ response[t].status = 200

\* C1: every POST /recommend request that is invalid (absent or empty body,
\* missing required field, age not numeric or outside [0,120], income not
\* numeric or negative, risk tolerance outside the five levels) is answered
\* with HTTP 400 and without any call of the core, so that the Profile
\* Registry is left as it was.
C1_InvalidRequestIsClientError ==
    \A t \in Threads :
        Answered(t) /\ InvalidRequest(data[t])
        => response[t].status = 400 /\ calls[t] = {}

HasNegativeTopN(body) ==
    /\ ~InvalidRequest(body)
    /\ "top_n" \in DOMAIN body.fields
    /\ IsJsonNumber(body.fields["top_n"])
    /\ body.fields["top_n"].n < 0

\* C2: a POST /recommend request with valid required fields and a negative
\* top_n is answered with a client error (HTTP 400), and before scoring: no
\* profile is stored and get_recommendations is not run for it.
C2_NegativeTopNIsClientError ==
    \A t \in Threads :
        Answered(t) /\ HasNegativeTopN(data[t])
        => /\ response[t].status = 400
           /\ "add_user_profile" \notin calls[t]
           /\ "get_recommendations" \notin calls[t]

\* C3: every accepted submission is stored under a key that was not in the
\* Profile Registry before, and no stored profile is replaced: the number of
\* registry entries equals the number of submissions stored.
C3_EverySubmissionHasItsOwnKey ==
    Cardinality(DOMAIN UserProfiles) = added

\* C4: while initialize_system runs as a reload, a request handler reading the
\* globals at any moment finds an analyzer whose df and processed_df are set
\* and a recommender bound to that same analyzer.
C4_ReloadIsAtomic ==
    /\ ~analyzers[analyzer].df.is_none
    /\ ~analyzers[analyzer].processed_df.is_none
    /\ recommenders[recommender].analyzer = analyzer

\* C5: GET /product/<id> for an id that is not in the catalog is answered with
\* HTTP 404 and success = false, whichever way the core signals the absence.
C5_UnknownProductIsNotFound ==
    detail.status # 0 /\ detail.product_id \notin CatalogIds(CurrentCatalog)
    => detail.status = 404 /\ detail.success = FALSE

\* C6: GET /search with a keyword and an integer limit (10 when absent) returns
\* at most limit results, reports that count, and the results are the first
\* entries of the catalog-order match list; without a keyword the request is
\* answered with HTTP 400 whatever limit is.
C6_SearchIsCappedByLimit ==
    search.status # 0
    => /\ search.keyword = "" => search.status = 400
       /\ search.keyword # "" /\ ~LimitOf(search.limit).raised
          => /\ search.status = 200
             /\ search.count <= LimitOf(search.limit).value
             /\ Len(search.results) <= LimitOf(search.limit).value
             /\ search.count = Len(search.results)
             /\ search.results = SubSeq(SearchMatches(CurrentCatalog, search.keyword),
                                        1, Len(search.results))

\* The value of an optional field with a default: the supplied value, the
\* default when the field is left out or null.
SuppliedOr(d, k, default) == IF k \in DOMAIN d /\ d[k] # JNull THEN d[k] ELSE default

\* C7: for every accepted POST /recommend request the stored and echoed
\* user_profile has social_security_type, expected_retirement_age, location
\* and investment_amount set to the supplied value or to the default
\* ("urban_employee", 60, "nationwide", half of annual_income), whether the
\* field is left out or null; family_status, health_status and
\* liquidity_needs are in the profile only if they were in the request.
C7_DefaultsAreApplied ==
    \A t \in Threads :
        Succeeded(t)
        => LET d == data[t].fields
               p == response[t].user_profile
           IN  /\ p["social_security_type"] = SuppliedOr(d, "social_security", JStr("urban_employee"))
               /\ p["expected_retirement_age"] = SuppliedOr(d, "retirement_age", JNum(60))
               /\ p["location"] = SuppliedOr(d, "location", JStr("nationwide"))
               /\ p["investment_amount"].t = "num"
               /\ \/ p["investment_amount"] = SuppliedOr(d, "investment_amount", JNull)
                  \/ /\ SuppliedOr(d, "investment_amount", JNull) = JNull
                     /\ 2 * p["investment_amount"].n = p["annual_income"].n
               /\ \A k \in OptionalKeys : k \in DOMAIN p <=> k \in DOMAIN d
               /\ UserProfiles[user_id[t]] = p

\* The top_n of a request: its value, 5 when absent.
RequestedTopN(d) == IF "top_n" \in DOMAIN d THEN d["top_n"] ELSE JNum(5)

\* C8: a successful POST /recommend response has at most top_n
\* recommendations (top_n is the request's value, 5 when absent); a valid
\* request with top_n = 0 succeeds with no recommendations and
\* recommendation_count = 0.
C8_AtMostTopN ==
    \A t \in Threads :
        /\ Succeeded(t)
           => /\ RequestedTopN(data[t].fields).t = "num"
              /\ Len(response[t].recommendations) <= RequestedTopN(data[t].fields).n
        /\ Answered(t) /\ ~InvalidRequest(data[t]) /\ RequestedTopN(data[t].fields) = JNum(0)
           => /\ response[t].status = 200
              /\ response[t].recommendations = <<>>
              /\ response[t].recommendation_count = 0

\* A successful response to top_n = 0, with products that would have matched.
C8_Witness ==
    \E t \in Threads :
        /\ Succeeded(t)
        /\ RequestedTopN(data[t].fields) = JNum(0)
        /\ response[t].recommendations = <<>>
        /\ response[t].total_products_evaluated > 0

\* What the recommender returns for the request thread t has answered.
ReturnedTo(t) ==
    get_recommendations(recommender, user_id[t], TopNOf(data[t].fields),
                        FilterCriteriaOf(data[t].fields)).value.recommendations

\* The text is the decimal numeral of score followed by a percent sign.
IsPercentageOf(text, score) ==
    /\ Len(text) >= 2
    /\ text[Len(text)] = "%"
    /\ AllDigits(SubSeq(text, 1, Len(text) - 1))
    /\ ParseDigits(SubSeq(text, 1, Len(text) - 1)) = score

\* C9: in a successful POST /recommend response recommendation_count is the
\* number of recommendations, the recommendations are the ones the
\* recommender returned, in its order, and the match_percentage of each is
\* its match_score followed by "%".
C9_ResponseMirrorsRecommender ==
    \A t \in Threads :
        Succeeded(t)
        => LET out == response[t].recommendations
               ret == ReturnedTo(t)
           IN  /\ response[t].recommendation_count = Len(out)
               /\ Len(out) = Len(ret)
               /\ \A i \in 1..Len(out) :
                     /\ out[i].product_id = ret[i].product.product_id
                     /\ out[i].match_score = ret[i].match_score
                     /\ IsPercentageOf(out[i].match_percentage, out[i].match_score)

\* A successful response with several recommendations of different scores.
C9_Witness ==
    \E t \in Threads :
        /\ Succeeded(t)
        /\ Len(response[t].recommendations) >= 2
        /\ response[t].recommendations[1].match_score > response[t].recommendations[2].match_score

\* C10: between a request's add_user_profile and its get_recommendations and
\* get_personalized_advice, the registry entry under its user_id is its own
\* profile, and the recommendations of a successful response are the ones
\* computed from the profile the response echoes.
C10_OwnProfileIsRead ==
    \A t \in Threads :
        /\ pc[t] \in {"get_recommendations", "get_personalized_advice"}
           => /\ user_id[t] \in DOMAIN UserProfiles
              /\ UserProfiles[user_id[t]] = user_profile[t]
        /\ Succeeded(t)
           => response[t].recommendations =
                FormatResponse(now, response[t].user_profile,
                               Recommend(response[t].user_profile, CatalogOf(recommender),
                                         TopNOf(data[t].fields).n,
                                         FilterCriteriaOf(data[t].fields))).recommendations

====
